---- MODULE Spec2Model ----
(***************************************************************************)
(* Model of the screenplay annotation pipeline of movie-script-parser      *)
(* (ScriptParser.parse and parseMovieScript).  Texts are TLA+ strings; the *)
(* regular expressions of the source are operators over them.  Indices     *)
(* returned by search() are 0-based as in JavaScript, positions passed to  *)
(* Ch and SubSeq are 1-based.                                              *)
(***************************************************************************)
EXTENDS Integers, Sequences, FiniteSets, TLC

VARIABLES rawScript, lines, entries, pc, threw, roundedCharacterIndent, pi, discard, speechAnomalies, unknownLines,
          movies, batchStart, batch, batchScripts, rawScripts

\* The state of fetchMovieScriptsInBatch and of the MovieCollection that calls it
fetchVars == <<movies, batchStart, batch, batchScripts, rawScripts>>

\* The state of the ScriptParser
parserVars == <<rawScript, lines, entries, threw, roundedCharacterIndent, pi, discard, speechAnomalies, unknownLines>>

vars == <<rawScript, lines, entries, pc, threw, roundedCharacterIndent, pi, discard, speechAnomalies, unknownLines,
          movies, batchStart, batch, batchScripts, rawScripts>>

\* ------------------------------------------------------------------ strings

Ch(s, i) == SubSeq(s, i, i)

UpperChars == "ABCDEFGHIJKLMNOPQRSTUVWXYZ"

LowerChars == "abcdefghijklmnopqrstuvwxyz"

DigitChars == "0123456789"

CharsOf(s) == {Ch(s, i) : i \in 1..Len(s)}

Upper == CharsOf(UpperChars)

Lower == CharsOf(LowerChars)

Digit == CharsOf(DigitChars)

\* \w of the regular expressions
WordChar == Upper \cup Lower \cup Digit \cup {"_"}

\* \s of the regular expressions
WhiteSpace == {" ", "\t", "\n", "\r"}

SetMin(S) == CHOOSE m \in S : \A k \in S : m <= k

SetMax(S) == 0 - SetMin({0 - k : k \in S})

StartsWith(s, p) == Len(s) >= Len(p) /\ SubSeq(s, 1, Len(p)) = p

EndsWith(s, p) == Len(s) >= Len(p) /\ SubSeq(s, Len(s) - Len(p) + 1, Len(s)) = p

\* p occurs in s at position i
MatchAt(s, i, p) == i >= 1 /\ i + Len(p) - 1 <= Len(s) /\ SubSeq(s, i, i + Len(p) - 1) = p

\* String.prototype.includes
Contains(s, p) == \E i \in 1..(Len(s) - Len(p) + 1) : SubSeq(s, i, i + Len(p) - 1) = p

\* 0-based index of the first character of s in class C, or -1: s.search(/[C]/)
SearchClass(s, C) ==
    LET I == {i \in 1..Len(s) : Ch(s, i) \in C}
    IN  IF I = {} THEN -1 ELSE SetMin(I) - 1

NonWsPositions(s) == {i \in 1..Len(s) : Ch(s, i) \notin WhiteSpace}

trimStart(s) ==
    LET I == NonWsPositions(s)
    IN  IF I = {} THEN "" ELSE SubSeq(s, SetMin(I), Len(s))

trimEnd(s) ==
    LET I == NonWsPositions(s)
    IN  IF I = {} THEN "" ELSE SubSeq(s, 1, SetMax(I))

trim(s) ==
    LET I == NonWsPositions(s)
    IN  IF I = {} THEN "" ELSE SubSeq(s, SetMin(I), SetMax(I))

AllIn(s, C) == \A i \in 1..Len(s) : Ch(s, i) \in C

StripPrefix(s, p) == IF StartsWith(s, p) THEN SubSeq(s, Len(p) + 1, Len(s)) ELSE s

StripSuffix(s, p) == IF EndsWith(s, p) THEN SubSeq(s, 1, Len(s) - Len(p)) ELSE s

LowerOf(c) ==
    IF c \in Upper
    THEN Ch(LowerChars, CHOOSE k \in 1..Len(UpperChars) : Ch(UpperChars, k) = c)
    ELSE c

UpperOf(c) ==
    IF c \in Lower
    THEN Ch(UpperChars, CHOOSE k \in 1..Len(LowerChars) : Ch(LowerChars, k) = c)
    ELSE c

\* Recursion by halves keeps the evaluation shallow on long strings
RECURSIVE toLowerCase(_)
toLowerCase(s) ==
    IF Len(s) <= 1 THEN LowerOf(s)
    ELSE toLowerCase(SubSeq(s, 1, Len(s) \div 2)) \o toLowerCase(SubSeq(s, Len(s) \div 2 + 1, Len(s)))

RECURSIVE toUpperCase(_)
toUpperCase(s) ==
    IF Len(s) <= 1 THEN UpperOf(s)
    ELSE toUpperCase(SubSeq(s, 1, Len(s) \div 2)) \o toUpperCase(SubSeq(s, Len(s) \div 2 + 1, Len(s)))

\* s.replace(p, r) with a string pattern: the first occurrence only
ReplaceFirst(s, p, r) ==
    LET I == {i \in 1..(Len(s) - Len(p) + 1) : MatchAt(s, i, p)}
    IN  IF I = {} THEN s
        ELSE LET i == SetMin(I)
             IN  SubSeq(s, 1, i - 1) \o r \o SubSeq(s, i + Len(p), Len(s))

\* s.replace(/p/g, r) for a literal p: leftmost non-overlapping occurrences
RECURSIVE ReplaceAll(_, _, _)
ReplaceAll(s, p, r) ==
    LET I == {i \in 1..(Len(s) - Len(p) + 1) : MatchAt(s, i, p)}
    IN  IF I = {} THEN s
        ELSE LET i == SetMin(I)
             IN  SubSeq(s, 1, i - 1) \o r \o ReplaceAll(SubSeq(s, i + Len(p), Len(s)), p, r)

RECURSIVE Spaces(_)
Spaces(n) ==
    IF n <= 0 THEN "" ELSE IF n = 1 THEN " " ELSE Spaces(n \div 2) \o Spaces(n - n \div 2)

\* ------------------------------------------------------------------ metrics

\* computeIndentation: str.search(/\S|$/)
computeIndentation(str) ==
    LET I == NonWsPositions(str)
    IN  IF I = {} THEN Len(str) ELSE SetMin(I) - 1

\* computeUpperCaseFrequency, kept as the fraction <<numerator, denominator>>:
\* search() gives the index of the first match (-1 when there is none), and
\* `x || 1` replaces a zero denominator by 1.
computeUpperCaseFrequency(str) ==
    LET lowerCaseChars == SearchClass(str, Lower)
        upperCaseChars == SearchClass(str, Upper)
        sum == lowerCaseChars + upperCaseChars
    IN  <<upperCaseChars, IF sum = 0 THEN 1 ELSE sum>>

\* ucf == 1 on the fraction
RatioIsOne(q) == q[1] = q[2]

\* str.search(/^\s*<b>.*<\/b>\s*$/) != -1
isBold(str) ==
    LET t == trim(str)
    IN  StartsWith(t, "<b>") /\ EndsWith(t, "</b>") /\ Len(t) >= 7

computeMetrics(str) ==
    [indentation |-> computeIndentation(str),
     upperCaseFrequency |-> computeUpperCaseFrequency(str),
     bold |-> isBold(str)]

\* ------------------------------------------------------------------ patterns

\* content.replace(patterns.boldTag, ""): leftmost tags first
RECURSIVE removeBoldTags(_)
removeBoldTags(s) ==
    LET I == {i \in 1..Len(s) : MatchAt(s, i, "<b>") \/ MatchAt(s, i, "</b>")}
    IN  IF I = {} THEN s
        ELSE LET i == SetMin(I)
                 n == IF MatchAt(s, i, "<b>") THEN 3 ELSE 4
             IN  SubSeq(s, 1, i - 1) \o removeBoldTags(SubSeq(s, i + n, Len(s)))

\* The alternatives between the parentheses of patterns.characterSuffix, in the
\* order of the source; an unescaped "." stands for any character.
characterSuffixNames ==
    <<"V.O.", "VO", "V/O", "O.S.", "O.S", "OS", "O/S", "O.C.", "OC", "CONT'D",
      "CONT", "CONT.", "CONT'D.", "CONT 'D.", "OFF">>

MatchWild(s, i, p) ==
    /\ i + Len(p) - 1 <= Len(s)
    /\ \A k \in 1..Len(p) :
          \/ Ch(p, k) = Ch(s, i + k - 1)
          \/ Ch(p, k) = "." /\ Ch(s, i + k - 1) # "\n"

\* Position just after the match of patterns.characterSuffix that starts at
\* position i of s, or 0 when no match starts there.
characterSuffixEnd(s, i) ==
    LET J == {j \in i..Len(s) : Ch(s, j) \notin WhiteSpace}
        j == IF J = {} THEN Len(s) + 1 ELSE SetMin(J)
        K == {k \in 1..Len(characterSuffixNames) :
                 /\ MatchWild(s, j + 1, characterSuffixNames[k])
                 /\ MatchAt(s, j + 1 + Len(characterSuffixNames[k]), ")")}
    IN  IF MatchAt(s, j, "(") /\ K # {}
        THEN j + 1 + Len(characterSuffixNames[SetMin(K)]) + 1
        ELSE IF MatchAt(s, i, " --") THEN i + 3
        ELSE 0

\* content.replace(patterns.characterSuffix, ""): leftmost matches first
RECURSIVE removeCharacterSuffix(_)
removeCharacterSuffix(s) ==
    LET I == {i \in 1..Len(s) : characterSuffixEnd(s, i) > 0}
    IN  IF I = {} THEN s
        ELSE LET i == SetMin(I)
             IN  SubSeq(s, 1, i - 1)
                    \o removeCharacterSuffix(SubSeq(s, characterSuffixEnd(s, i), Len(s)))

cleanupCharacterEntry(e) ==
    trim(removeBoldTags(toLowerCase(removeCharacterSuffix(e.content))))

\* patterns.characterExclusion[0]: / -(<\/b>)?$/
endsWithDash(s) == EndsWith(s, " -") \/ EndsWith(s, " -</b>")

\* patterns.characterExclusion[1]: /^\s*(<b>)?\(.+\)(<\/b>)?$/
allInParenthesis(s) ==
    LET u == StripPrefix(trimStart(s), "<b>")
    IN  /\ StartsWith(u, "(")
        /\ \/ EndsWith(u, ")") /\ Len(u) >= 3
           \/ EndsWith(u, ")</b>") /\ Len(u) >= 7

\* patterns.characterExclusion[2]: /^\s*(<b>)?[^\w]+(<\/b>)?$/
noAlphanumeric(s) ==
    LET u == StripPrefix(trimStart(s), "<b>")
        NonWord(x) == x # "" /\ \A i \in 1..Len(x) : Ch(x, i) \notin WordChar
    IN  \/ NonWord(u)
        \/ EndsWith(u, "</b>") /\ NonWord(StripSuffix(u, "</b>"))
        \/ s # "" /\ NonWsPositions(s) = {}

matchesCharacterExclusion(s) == endsWithDash(s) \/ allInParenthesis(s) \/ noAlphanumeric(s)

\* All strings made of the parts of ps in order, each optional part (opt)
\* present or absent: the expansions of X\.?:? and the like.
RECURSIVE Variants(_)
Variants(ps) ==
    IF ps = <<>> THEN {""}
    ELSE LET rest == Variants(Tail(ps))
         IN  {Head(ps).lit \o r : r \in rest} \cup (IF Head(ps).opt THEN rest ELSE {})

Lit(x) == [lit |-> x, opt |-> FALSE]

Opt(x) == [lit |-> x, opt |-> TRUE]

\* The patterns of patterns.sceneLexicon that start with ( |^)
sceneLexiconAnchored ==
    UNION {Variants(<<Lit("INT"), Opt("."), Opt(":"), Lit(" ")>>),
           Variants(<<Lit("INTERIOR"), Opt(":"), Lit(" ")>>),
           Variants(<<Lit("EXT"), Opt("."), Opt(":"), Lit(" ")>>),
           Variants(<<Lit("EXTERIOR"), Opt(":"), Lit(" ")>>),
           Variants(<<Lit("EXT"), Opt("."), Lit("/INT"), Opt("."), Opt(":"), Lit(" ")>>),
           Variants(<<Lit("INT"), Opt("."), Lit("/EXT"), Opt("."), Opt(":"), Lit(" ")>>),
           Variants(<<Lit("E"), Opt("."), Lit("/I"), Opt("."), Opt(":"), Lit(" ")>>),
           Variants(<<Lit("I"), Opt("."), Lit("/E"), Opt("."), Opt(":"), Lit(" ")>>)}

\* The patterns of patterns.sceneLexicon that start with ^\s*
sceneLexiconLeading == {"INSIDE ", "OUTSIDE "}

\* matchesOnePattern(s, patterns.sceneLexicon)
matchesSceneLexicon(s) ==
    \/ \E i \in 1..Len(s) :
          /\ i = 1 \/ Ch(s, i - 1) = " "
          /\ \E v \in sceneLexiconAnchored : MatchAt(s, i, v)
    \/ \E v \in sceneLexiconLeading : StartsWith(trimStart(s), v)

\* The patterns of patterns.metaLexicon that are plain substrings
metaLexiconLiterals ==
    {"FADE ", "FADES ", "DISSOLVE:", "DISSOLVE ", "BLACK:", "THE END", "- END",
     "CREDITS", "CUT TO", "CUT BACK TO", "WIPE TO", "INTERCUT", "CLOSE ON",
     "CLOSER ON", "CLOSE UP", "CLOSEUP", "WIDER ON", "WIDE ON", "RESUME ON",
     "BACK ON ", "UP ON ", "<b>ANGLE ON ", "<b>ON ", " LATER", "CONTINUED",
     "TRANSITION", "MORE", "THEIR POV", "'S POV", "SUPER:", "<b>CAMERA ", "<b>ZOOM "}

\* /<b>[A-Z]+ (ANGLE|SHOT)/
matchesAngleOrShot(s) ==
    \E i \in 1..Len(s) : \E j \in (i + 4)..Len(s) :
        /\ MatchAt(s, i, "<b>")
        /\ AllIn(SubSeq(s, i + 3, j - 1), Upper)
        /\ MatchAt(s, j, " ANGLE") \/ MatchAt(s, j, " SHOT")

\* / BY .+ PLAYS\.?\s*/
matchesByPlays(s) ==
    \E i \in 1..Len(s) : \E j \in (i + 5)..Len(s) :
        MatchAt(s, i, " BY ") /\ MatchAt(s, j, " PLAYS")

\* matchesOnePattern(s, patterns.metaLexicon)
matchesMetaLexicon(s) ==
    \/ \E p \in metaLexiconLiterals : Contains(s, p)
    \/ matchesAngleOrShot(s)
    \/ EndsWith(s, " SHOT") \/ EndsWith(s, " SHOT:")
    \/ matchesByPlays(s)

\* content.search(patterns.speechCue) != -1: /^\s*(<b>)?\([^)(]+\)(<\/b>)?\s*$/
matchesSpeechCue(s) ==
    LET u == StripSuffix(StripPrefix(trim(s), "<b>"), "</b>")
    IN  /\ Len(u) >= 3
        /\ Ch(u, 1) = "(" /\ Ch(u, Len(u)) = ")"
        /\ \A i \in 2..(Len(u) - 1) : Ch(u, i) \notin {"(", ")"}

\* content.search(patterns.numericalOnly) != -1: /^\s*(<b>)?[0-9]*\.?(<\/b>)?\s*$/
matchesNumericalOnly(s) ==
    LET u == StripSuffix(StripPrefix(trim(s), "<b>"), "</b>")
    IN  AllIn(StripSuffix(u, "."), Digit)


\* ------------------------------------------------------------------ entries

UNKNOWN == "UNKNOWN"

META == "META"

SCENE == "SCENE"

NARRATIVE == "NARRATIVE"

SPEECH == "SPEECH"

SPEECH_CUE == "SPEECH CUE"

CHARACTER == "CHARACTER"

Annotation == {UNKNOWN, META, SCENE, NARRATIVE, SPEECH, SPEECH_CUE, CHARACTER}

indentationOf(e) == computeIndentation(e.content)

\* ------------------------------------------------------------------ preprocess

\* Number of characters c at the start of s
RunLength(s, c) ==
    LET I == {i \in 1..Len(s) : Ch(s, i) # c}
    IN  IF I = {} THEN Len(s) ELSE SetMin(I) - 1

\* Position of the newline that ends a match of /\n *\n/ starting at position i
\* of s, or 0 when no match starts there
blankLineEnd(s, i) ==
    LET k == i + 1 + RunLength(SubSeq(s, i + 1, Len(s)), " ")
    IN  IF Ch(s, i) = "\n" /\ MatchAt(s, k, "\n") THEN k ELSE 0

\* repl(/\n *\n/g, "\n\n"): leftmost matches first, the search resumes after a match
RECURSIVE collapseBlankLines(_)
collapseBlankLines(s) ==
    LET I == {i \in 1..Len(s) : blankLineEnd(s, i) > 0}
    IN  IF I = {} THEN s
        ELSE LET i == SetMin(I)
             IN  SubSeq(s, 1, i - 1) \o "\n\n"
                    \o collapseBlankLines(SubSeq(s, blankLineEnd(s, i) + 1, Len(s)))

\* repl(/<b>(c+)/g, ...): the run of characters c after an opening bold tag is
\* replaced by pad repeated once per character and moved in front of the tag
RECURSIVE moveBoldAfter(_, _, _)
moveBoldAfter(s, c, pad) ==
    LET I == {i \in 1..(Len(s) - 3) : MatchAt(s, i, "<b>") /\ Ch(s, i + 3) = c}
    IN  IF I = {} THEN s
        ELSE LET i == SetMin(I)
                 k == RunLength(SubSeq(s, i + 3, Len(s)), c)
             IN  SubSeq(s, 1, i - 1) \o Spaces(k * pad) \o "<b>"
                    \o moveBoldAfter(SubSeq(s, i + 3 + k, Len(s)), c, pad)

preprocess(raw) ==
    LET s1 == ReplaceAll(raw, "\r", "")
        s2 == ReplaceAll(s1, "<br>", "\n")
        s3 == ReplaceAll(s2, "<br/>", "\n")
        s4 == ReplaceAll(s3, "\t", Spaces(8))
        s5 == collapseBlankLines(s4)
        s6 == ReplaceAll(s5, "\n</b>", "</b>\n")
        s7 == moveBoldAfter(s6, " ", 1)
        s8 == moveBoldAfter(s7, "\t", 8)
    IN  ReplaceAll(s8, "<b></b>", "")

\* ------------------------------------------------------------------ entry builder

\* rawScript.split("\n")
RECURSIVE split(_)
split(s) ==
    LET I == {i \in 1..Len(s) : Ch(s, i) = "\n"}
    IN  IF I = {} THEN <<s>>
        ELSE LET m == CHOOSE i \in I : Cardinality({j \in I : j < i}) = Cardinality(I) \div 2
             IN  split(SubSeq(s, 1, m - 1)) \o split(SubSeq(s, m + 1, Len(s)))

discardTokens == <<"<pre>", "</pre>">>

isDiscarded(l) == \E k \in 1..Len(discardTokens) : trim(l) = discardTokens[k]

stripDiscardTokens(l) == ReplaceFirst(ReplaceFirst(l, discardTokens[1], ""), discardTokens[2], "")

\* The discard pass: drop the marker lines, strip the markers from the others
discardPass(ls) ==
    LET kept == SelectSeq(ls, LAMBDA l : ~isDiscarded(l))
    IN  [k \in 1..Len(kept) |-> stripDiscardTokens(kept[k])]

isBlank(l) == Len(trim(l)) = 0


\* newEntry with the annotation left out, as in the line objects {content: l}
newEntryUnannotated(l, k) == [content |-> l, annotation |-> "", locked |-> FALSE, origin |-> k]

newEntry(l, k) == [content |-> l, annotation |-> UNKNOWN, locked |-> FALSE, origin |-> k]

mergeInto(e, l) == [e EXCEPT !.content = trimEnd(@) \o " " \o trim(l)]


\* mergesLine without the blank line counter
mergesLineIgnoringBlanks(out, blankLineCounter, ind, previousInd) ==
    out # <<>> /\ ind = previousInd

\* The line at position k of ls is merged into the previous entry
mergesLine(out, blankLineCounter, ind, previousInd) ==
    out # <<>> /\ blankLineCounter = 0 /\ ind = previousInd

\* The callback of the "Init entries & merge pass" run by pass() over the lines
\* lo..hi of ls, one after the other: the lines up to mid are done before the
\* lines after mid are started.  st.out holds the entries made so far (its
\* last one is previousEntry), st.previousInd is previousMetrics.indentation.
\* The origin field of an entry records the position of the line that created it.
RECURSIVE buildEntries(_, _, _, _)
buildEntries(ls, lo, hi, st) ==
    IF lo > hi THEN st
    ELSE IF lo = hi
    THEN LET ind == computeIndentation(ls[lo])
             last == Len(st.out)
         IN  IF isBlank(ls[lo])
             THEN [st EXCEPT !.blankLineCounter = st.blankLineCounter + 1,
                             !.previousInd = ind]
             ELSE IF mergesLine(st.out, st.blankLineCounter, ind, st.previousInd)
             THEN [st EXCEPT !.out = [st.out EXCEPT ![last] = mergeInto(st.out[last], ls[lo])],
                             !.previousInd = ind]
             ELSE [out |-> Append(st.out, newEntry(ls[lo], lo)),
                   blankLineCounter |-> 0,
                   previousInd |-> ind]
    ELSE LET mid == (lo + hi) \div 2
             done == buildEntries(ls, lo, mid, st)
         IN  IF done.blankLineCounter >= 0
             THEN buildEntries(ls, mid + 1, hi, done)
             ELSE done

\* The pass starts with no entry, no blank line seen and the metrics of ""
beforeFirstLine ==
    [out |-> <<>>, blankLineCounter |-> 0, previousInd |-> computeIndentation("")]

\* initEntries that collects the entries last line first
initEntriesReversed(ls) ==
    LET out == buildEntries(ls, 1, Len(ls), beforeFirstLine).out
    IN  [i \in DOMAIN out |-> out[Len(out) + 1 - i]]

initEntries(ls) == buildEntries(ls, 1, Len(ls), beforeFirstLine).out


\* ------------------------------------------------------------------ passes

setAnnotation(ents, I, a) ==
    [i \in DOMAIN ents |-> IF i \in I THEN [ents[i] EXCEPT !.annotation = a] ELSE ents[i]]

setLocked(ents, I, a) ==
    [i \in DOMAIN ents |->
        IF i \in I THEN [ents[i] EXCEPT !.annotation = a, !.locked = TRUE] ELSE ents[i]]

\* The metrics pass() hands to the callback with each entry
metricsOf(ents) == [i \in DOMAIN ents |-> computeMetrics(ents[i].content)]

\* ucf == 1 || bold
isCandidate(m) == RatioIsOne(m.upperCaseFrequency) \/ m.bold

\* The Map indentOccurrences after the first scan of the CHARACTER and SCENES
\* pass: indentation -> positions of the upper-case or bold entries that have
\* it.  Position i here is index i - 1 of the source.
indentOccurrences(ents) ==
    LET m == metricsOf(ents)
        cand == {i \in DOMAIN ents : isCandidate(m[i])}
    IN  [ind \in {m[i].indentation : i \in cand} |-> {i \in cand : m[i].indentation = ind}]

\* total
totalCandidates(occ) == Cardinality(UNION {occ[ind] : ind \in DOMAIN occ})

\* a sorts before b: the larger group first, and of two groups of one size the
\* one the Map met first (the sort is stable)
sortsBefore(a, b) ==
    \/ Cardinality(a) > Cardinality(b)
    \/ Cardinality(a) = Cardinality(b) /\ SetMin(a) < SetMin(b)

\* [...indentOccurrences.values()].sort((a, b) => b.length - a.length)
sameIndentEntries(occ) ==
    LET G == {occ[ind] : ind \in DOMAIN occ}
    IN  [k \in 1..Cardinality(G) |->
            CHOOSE a \in G : Cardinality({b \in G : sortsBefore(b, a)}) = k - 1]

\* acceptsClustering with >= for > in the three comparisons of sizes
acceptsClusteringNotStrict(sie, n, total) ==
    /\ Len(sie) >= 2
    /\ 10 * Cardinality(sie[1]) >= n
    /\ 1000 * Cardinality(sie[2]) >= 15 * n
    /\ 2 * (Cardinality(sie[1]) + Cardinality(sie[2])) >= total


\* The condition of the if: n * 0.1, n * 0.015 and total * 0.5 in integers
acceptsClustering(sie, n, total) ==
    /\ Len(sie) >= 2
    /\ 10 * Cardinality(sie[1]) > n
    /\ 1000 * Cardinality(sie[2]) > 15 * n
    /\ 2 * (Cardinality(sie[1]) + Cardinality(sie[2])) > total

clusteringAccepted(ents) ==
    LET occ == indentOccurrences(ents)
    IN  acceptsClustering(sameIndentEntries(occ), Len(ents), totalCandidates(occ))

\* The else branch reads sameIndentEntries[0].length and sameIndentEntries[1].length
rejectedBranchThrows(ents) == Len(sameIndentEntries(indentOccurrences(ents))) < 2

\* promotable without the filter on patterns.characterExclusion
promotableUnfiltered(ents, i) == i >= 2


\* idx >= 1 and not excluded
promotable(ents, i) == i >= 2 /\ ~matchesCharacterExclusion(ents[i].content)

RECURSIVE expandCharacters(_, _, _, _, _)

\* expandCharacters that leaves the groups it has flagged in sameIndentEntries
\* and goes on as long as a run of the body flags an entry anew
expandCharactersKeepingGroups(ents, rem, names, clean, left) ==
    LET indentGroupsWithCharacters == {g \in rem : \E i \in g : clean[i] \in names}
        flagged == {i \in UNION indentGroupsWithCharacters : promotable(ents, i)}
    IN  IF \A i \in flagged : ents[i].annotation = CHARACTER
        THEN [ents |-> ents, left |-> Append(left, rem)]
        ELSE expandCharacters(setAnnotation(ents, flagged, CHARACTER), rem,
                              names \cup {clean[i] : i \in flagged}, clean,
                              Append(left, rem))

\* The do ... while of the expansion: rem are the groups left in
\* sameIndentEntries, names is characterNames, clean[i] the cleaned-up content
\* of entry i.  left records sameIndentEntries as each run of the body leaves it.
expandCharacters(ents, rem, names, clean, left) ==
    LET indentGroupsWithCharacters == {g \in rem : \E i \in g : clean[i] \in names}
        flagged == {i \in UNION indentGroupsWithCharacters : promotable(ents, i)}
        kept == rem \ indentGroupsWithCharacters
    IN  IF indentGroupsWithCharacters = {}
        THEN [ents |-> ents, left |-> Append(left, kept)]
        ELSE expandCharacters(setAnnotation(ents, flagged, CHARACTER), kept,
                              names \cup {clean[i] : i \in flagged}, clean,
                              Append(left, kept))

\* expansion whose set of names stays the set of the seeded names
expansionOfSeededNamesOnly(ents) ==
    LET sie == sameIndentEntries(indentOccurrences(ents))
        characterNameEntries == {i \in sie[1] : promotable(ents, i)}
        seeded == setAnnotation(setAnnotation(ents, characterNameEntries, CHARACTER),
                                sie[2], SCENE)
        clean == [i \in DOMAIN ents |-> cleanupCharacterEntry(ents[i])]
        names == {clean[i] : i \in characterNameEntries}
        found == {g \in {sie[k] : k \in 3..Len(sie)} : \E i \in g : clean[i] \in names}
    IN  [ents |-> setAnnotation(seeded, {i \in UNION found : promotable(ents, i)}, CHARACTER),
         left |-> <<>>]

\* The accepted branch of the CHARACTER and SCENES pass: the entries it leaves
\* and the record of the expansion
expansion(ents) ==
    LET sie == sameIndentEntries(indentOccurrences(ents))
        characterNameEntries == {i \in sie[1] : promotable(ents, i)}
        seeded == setAnnotation(setAnnotation(ents, characterNameEntries, CHARACTER),
                                sie[2], SCENE)
        clean == [i \in DOMAIN ents |-> cleanupCharacterEntry(ents[i])]
    IN  IF Len(sie) > 2
        THEN expandCharacters(seeded, {sie[k] : k \in 3..Len(sie)},
                              {clean[i] : i \in characterNameEntries}, clean, <<>>)
        ELSE [ents |-> seeded, left |-> <<>>]

seedFromIndentation(ents) == expansion(ents).ents


\* sceneLexiconPass restricted to the entries that are still UNKNOWN
sceneLexiconPassUnknownOnly(ents) ==
    setLocked(ents,
              {i \in DOMAIN ents :
                  /\ ents[i].annotation = UNKNOWN
                  /\ matchesSceneLexicon(ReplaceFirst(ents[i].content, "<b>", ""))},
              SCENE)

\* SCENE lexicon pass
sceneLexiconPass(ents) ==
    setLocked(ents,
              {i \in DOMAIN ents :
                  /\ ents[i].annotation = UNKNOWN \/ ~ents[i].locked
                  /\ matchesSceneLexicon(ReplaceFirst(ents[i].content, "<b>", ""))},
              SCENE)

\* speechCuePass that assigns the locked flag of every entry from its own test
speechCuePassRelocking(ents) ==
    [i \in DOMAIN ents |->
        LET hit == ents[i].annotation = UNKNOWN /\ matchesSpeechCue(ents[i].content)
        IN  [ents[i] EXCEPT !.annotation = IF hit THEN SPEECH_CUE ELSE @,
                            !.locked = hit]]


\* Flag SPEECH CUE
speechCuePass(ents) ==
    setLocked(ents,
              {i \in DOMAIN ents :
                  ents[i].annotation = UNKNOWN /\ matchesSpeechCue(ents[i].content)},
              SPEECH_CUE)

\* Positions of the entries that directly follow an entry annotated a
following(ents, a) == {i \in DOMAIN ents : i > 1 /\ ents[i - 1].annotation = a}

\* flagSpeechPass whose first sweep does not test the annotation of the entry
flagSpeechPassAnyAnnotation(ents) ==
    LET m == metricsOf(ents)
        afterCharacter == following(ents, CHARACTER)
        afterSpeechCue == following(ents, SPEECH_CUE)
        swept == setAnnotation(ents, afterCharacter, SPEECH)
        postCharacterIndents == {m[i].indentation : i \in afterCharacter}
    IN  setAnnotation(swept,
                      {i \in afterSpeechCue :
                          /\ m[i].indentation \in postCharacterIndents
                          /\ swept[i].annotation = UNKNOWN},
                      SPEECH)

\* Flag SPEECH: the sweep after CHARACTER entries, then the overlap of the two
\* tables of indentations
flagSpeechPass(ents) ==
    LET m == metricsOf(ents)
        afterCharacter == following(ents, CHARACTER)
        afterSpeechCue == following(ents, SPEECH_CUE)
        swept == setAnnotation(ents, {i \in afterCharacter : ents[i].annotation = UNKNOWN}, SPEECH)
        postCharacterIndents == {m[i].indentation : i \in afterCharacter}
    IN  setAnnotation(swept,
                      {i \in afterSpeechCue :
                          /\ m[i].indentation \in postCharacterIndents
                          /\ swept[i].annotation = UNKNOWN},
                      SPEECH)

\* metaLexiconPass without the test of the locked flag
metaLexiconPassLockedToo(ents) ==
    setAnnotation(ents,
                  {i \in DOMAIN ents :
                      /\ ents[i].annotation \in {UNKNOWN, CHARACTER, SCENE}
                      /\ matchesMetaLexicon(ents[i].content)},
                  META)

\* META lexicon pass
metaLexiconPass(ents) ==
    setAnnotation(ents,
                  {i \in DOMAIN ents :
                      /\ ~ents[i].locked
                      /\ ents[i].annotation \in {UNKNOWN, CHARACTER, SCENE}
                      /\ matchesMetaLexicon(ents[i].content)},
                  META)

\* Find NARRATIVE: the list of distinct cleaned-up CHARACTER names
characterNames(ents) ==
    {cleanupCharacterEntry(ents[i]) : i \in {j \in DOMAIN ents : ents[j].annotation = CHARACTER}}

\* Positions of the UNKNOWN entries that mention a character name
mentioning(ents) ==
    LET names == characterNames(ents)
    IN  {i \in DOMAIN ents :
            /\ ents[i].annotation = UNKNOWN
            /\ \E n \in names : Contains(toLowerCase(ents[i].content), n)}

\* narrativeIndentation without the sort: the first key of the Map
narrativeIndentationFirstKey(ents) ==
    LET M == mentioning(ents)
    IN  IF M = {} THEN -1 ELSE indentationOf(ents[SetMin(M)])

\* indentationLevels[0], the key of the largest group (of two groups of one size
\* the one met first); -1 stands for undefined
narrativeIndentation(ents) ==
    LET M == mentioning(ents)
        ind == [i \in M |-> indentationOf(ents[i])]
        occ == [d \in {ind[i] : i \in M} |-> {i \in M : ind[i] = d}]
    IN  IF M = {} THEN -1
        ELSE CHOOSE a \in DOMAIN occ : \A b \in DOMAIN occ \ {a} : sortsBefore(occ[a], occ[b])

narrativePass(ents) ==
    LET narrativeInd == narrativeIndentation(ents)
    IN  setAnnotation(ents,
                      {i \in DOMAIN ents :
                          ents[i].annotation = UNKNOWN /\ indentationOf(ents[i]) = narrativeInd},
                      NARRATIVE)


\* isRemoved with a pattern that knows no bold tags
isRemovedPlainOnly(e) ==
    e.annotation = UNKNOWN /\ AllIn(StripSuffix(trim(e.content), "."), Digit)

\* Entry removal pass
isRemoved(e) == e.annotation = UNKNOWN /\ matchesNumericalOnly(e.content)

removalPass(ents) == SelectSeq(ents, LAMBDA e : ~isRemoved(e))

\* Flag META entries: the positions the while loop visits before it stops
leadingUnknown(ents) ==
    {i \in DOMAIN ents : \A j \in 1..i : ents[j].annotation = UNKNOWN}

\* boundaryPass whose loop starts at the second entry
boundaryPassFromSecond(ents) == setAnnotation(ents, leadingUnknown(ents) \ {1}, META)

boundaryPass(ents) == setAnnotation(ents, leadingUnknown(ents), META)

\* The loop reads this.entries[i].annotation one past the end
boundaryThrows(ents) == \A i \in DOMAIN ents : ents[i].annotation = UNKNOWN

\* lastSpeechPass without the test of the locked flag
lastSpeechPassLockedToo(ents) ==
    setAnnotation(ents,
                  {i \in following(ents, CHARACTER) :
                      ents[i].annotation \notin {SPEECH, CHARACTER, SPEECH_CUE}},
                  SPEECH)

\* Last SPEECH pass
lastSpeechPass(ents) ==
    setAnnotation(ents,
                  {i \in following(ents, CHARACTER) :
                      /\ ~ents[i].locked
                      /\ ents[i].annotation \notin {SPEECH, CHARACTER, SPEECH_CUE}},
                  SPEECH)

\* ------------------------------------------------------------------ postprocess

NaN == -1

\* Math.round(averageIndent[CHARACTER]): round half up of sum / count
roundedMean(ents, a) ==
    LET I == {i \in DOMAIN ents : ents[i].annotation = a}
        RECURSIVE Sum(_)
        Sum(S) == IF S = {} THEN 0
                  ELSE LET x == CHOOSE x \in S : TRUE
                       IN  indentationOf(ents[x]) + Sum(S \ {x})
    IN  IF I = {} THEN NaN
        ELSE (2 * Sum(I) + Cardinality(I)) \div (2 * Cardinality(I))

\* isCharacterPair for pairs of two indentations only
isCharacterPairOfTwoIndentations(ents, i) ==
    /\ i > 1 /\ i <= Len(ents)
    /\ ents[i - 1].annotation = CHARACTER /\ ents[i].annotation = CHARACTER
    /\ indentationOf(ents[i - 1]) # indentationOf(ents[i])

\* The callback of "Fix consecutive CHARACTER entries" applies at position i
isCharacterPair(ents, i) ==
    i > 1 /\ i <= Len(ents) /\ ents[i - 1].annotation = CHARACTER /\ ents[i].annotation = CHARACTER

\* The position of the entry `discard` points to, for the pair (i - 1, i)
discardOf(ents, i, rounded) ==
    LET ind == indentationOf(ents[i])
        previousInd == indentationOf(ents[i - 1])
    IN  IF ind # previousInd
        THEN IF ind = rounded THEN i - 1
             ELSE IF previousInd = rounded THEN i
             ELSE IF previousInd < ind THEN i - 1
             ELSE i
        ELSE IF Len(ents[i].content) < Len(ents[i - 1].content) THEN i ELSE i - 1

\* fixPair with the two redesignations exchanged
fixPairExchanged(ents, i, rounded) ==
    IF ~isCharacterPair(ents, i) THEN ents
    ELSE IF discardOf(ents, i, rounded) = i
    THEN setAnnotation(ents, {i}, UNKNOWN)
    ELSE setAnnotation(ents, {i - 1}, SPEECH)


\* One call of the callback, at position i
fixPair(ents, i, rounded) ==
    IF ~isCharacterPair(ents, i) THEN ents
    ELSE IF discardOf(ents, i, rounded) = i
    THEN setAnnotation(ents, {i}, SPEECH)
    ELSE setAnnotation(ents, {i - 1}, UNKNOWN)


\* ------------------------------------------------------------------ inputs

\* Longest input, in physical lines, built from PoolLines
MaxLines == 3

\* Physical lines the inputs are built from: a blank line, bold cues at
\* indentations 2 and 4, a bold and a capital heading, dialogue, a page number,
\* a transition and a parenthetical.
PoolLines ==
    {"",
     "<b>INT. HALL</b>",
     "  <b>JOHN</b>",
     "  <b>JOHN (CONT'D)</b>",
     "    <b>JOHN</b>",
     "    Hello there.",
     "  <b>42.</b>",
     " CUT TO:",
     "   (beat)"}

\* k copies of the lines ls, one after the other
RECURSIVE repeat(_, _)
repeat(ls, k) ==
    IF k <= 0 THEN <<>>
    ELSE IF k = 1 THEN ls
    ELSE repeat(ls, k \div 2) \o repeat(ls, k - k \div 2)

RECURSIVE join(_)
join(ls) ==
    IF ls = <<>> THEN ""
    ELSE IF Len(ls) = 1 THEN ls[1]
    ELSE LET h == Len(ls) \div 2
         IN  join(SubSeq(ls, 1, h)) \o "\n" \o join(SubSeq(ls, h + 1, Len(ls)))

\* Whole documents: the examples of the documentation, documents with raw
\* markup, a page number in plain text and in dashes, four cues that share no
\* indentation, a bold span that closes after a blank line, a transition
\* between two lines of dialogue, cues that are no character names, five
\* groups of cues of which two are found by the names of their cues, a
\* parenthetical under a cue and a paragraph at its indentation, a heading, a
\* line of dialogue and a cue that hold phrases of the META lexicon,
\* paragraphs at two indentations of which some name a character, two cues
\* in a row before a heading, a page number before two cues in a row
ExampleScripts ==
    {"  JOHN\n    Hello there.",
     "<b>INT. KITCHEN - DAY</b>\n          <b>JOHN</b>\n\n          <b>JOHN (CONT'D)</b>",
     "INT. KITCHEN - DAY\n  <b>JOHN</b>\n    <b>JOHN</b>",
     "INT. KITCHEN - DAY\n<b>A</b>\n <b>B</b>\n  <b>C</b>\n   <b>D</b>",
     "<b>A</b>\n <b>B</b>\n  <b>C</b>\n   <b>D</b>",
     "    Hello there.\n  <b>JOHN</b>\n<b>INT. HALL</b>\n    Hello there.\n42.",
     "    Hello there.\n  <b>JOHN</b>\n<b>INT. HALL</b>\n    Hello there.\n- 2 -",
     "<pre>\r\n<b>          THREEPIO\n</b>     I should have known better<br>  \n<b>  INT. SHIP</b>\n</pre>",
     "<b>INT. HALL</b>\n<b>  JOHN\n\n</b>    Hello there.",
     "    Hello there.\n CUT TO:\n    Hello there.\n<b>INT. HALL</b>",
     "<b>INT. HALL</b>\n  <b>JOHN</b>\n    Hello there.\n  <b>(V.O.)</b>\n    Hello there.\n  <b>MARY -</b>\n    Hello there.\n  <b>* * *</b>",
     "<b>INT. HALL</b>\n  <b>JOHN</b>\n   (beat)\n\n   Hello there.\n  <b>JOHN</b>\n    Hello there.",
     "<b>INT. KITCHEN - DAY</b>\n          <b>JOHN</b>\n\n          <b>JOHN (CONT'D)</b>\n<b>INT. HALL</b>\n          <b>JOHN</b>\n    Hello there.",
     join(<<"42.", "    <b>JOHN</b>">>
          \o repeat(<<"  <b>JOHN</b>", "    Hello there.", "<b>INT. HALL</b>",
                      "  <b>JOHN</b>", "    Hello there.">>, 2)
          \o <<"  <b>JOHN</b>", "    Hello there.">>),
     "<b>INT. HALL - LATER</b>\n  <b>JOHN</b>\n    We CUT TO the chase.\n  <b>JOHN</b>\n    Hello there.\n  <b>FADE OUT</b>",
     join(<<"<b>INT. HALL</b>", "  <b>JOHN</b>", "    Hello there.", "  <b>JOHN</b>",
            "    Hello there.", "", "      Far from John.", "", "John walks in.", "",
            "John sits.", "", "The door closes.", "", "      Night falls.">>),
     join(<<" <b>MARY</b>">>
          \o repeat(<<"<b>INT. HALL</b>", "  <b>JOHN</b>", "    Hello there.">>, 3)
          \o <<"<b>INT. HALL</b>", "  <b>JOHN</b>",
               "   <b>JOHN</b>", "    Hello there.", "   <b>MARY</b>", "    Hello there.",
               " <b>MARY</b>", "    Hello there.", " <b>(V.O.)</b>", "    Hello there.",
               "      <b>PAUL</b>", "    Hello there.", "  <b>JOHN</b>">>)}

\* The sequences of at most n lines of PoolLines
Documents(n) == UNION {[1..k -> PoolLines] : k \in 0..n}

\* First lines of the documents of CueScripts: a heading and a line of dialogue
Openers == {"<b>INT. HALL</b>", "    Hello there."}

\* The lines of PoolLines the cluster analyzer counts, the heading apart
CueLines ==
    {"  <b>JOHN</b>", "  <b>JOHN (CONT'D)</b>", "    <b>JOHN</b>", "  <b>42.</b>", " CUT TO:"}

\* An opener, then two cues with or without a blank line between them, then
\* at most one more cue
CueScripts ==
    {join(<<o, a>> \o sep \o <<b>> \o t) :
        o \in Openers, a \in CueLines, b \in CueLines, sep \in {<<>>, <<"">>},
        t \in {<<>>} \cup {<<c>> : c \in CueLines}}

\* A heading, c cues each with its line of dialogue, then f more lines of
\* dialogue, each at another indentation than the line before it: 1 + 2c + f
\* entries, c of them in the group of the cues and one in the group of the
\* heading
thresholdScript(c, f) ==
    join(<<"<b>INT. HALL</b>">>
         \o repeat(<<"  <b>JOHN</b>", "    Hello there.">>, c)
         \o SubSeq(repeat(<<"      Hello there.", "    Hello there.">>, f), 1, f))

\* Documents of 9 and 10 entries with groups of 1 and 1, of 66 and 67 entries
\* with groups of 7 and 1
ThresholdScripts ==
    {thresholdScript(1, 6), thresholdScript(1, 7), thresholdScript(7, 51), thresholdScript(7, 52)}

Scripts ==
    {join(d) : d \in Documents(MaxLines)} \cup CueScripts \cup ExampleScripts \cup ThresholdScripts

\* ------------------------------------------------------------------ parseMovieScript

Init ==
    /\ rawScript \in Scripts
    /\ lines = <<>>
    /\ entries = <<>>
    /\ pc = "preprocess"
    /\ threw = ""
    /\ roundedCharacterIndent = NaN
    /\ pi = 0
    /\ discard = 0
    /\ speechAnomalies = {}
    /\ unknownLines = {}
    /\ movies = <<>>
    /\ batchStart = 0
    /\ batch = <<>>
    /\ batchScripts = <<>>
    /\ rawScripts = <<>>

\* A pass that only rewrites the entries
Step(from, to, ents) ==
    /\ pc = from
    /\ pc' = to
    /\ entries' = ents
    /\ UNCHANGED <<rawScript, lines, threw, roundedCharacterIndent, pi, discard, speechAnomalies, unknownLines, fetchVars>>

\* A TypeError leaves parse(): nothing is returned
Throw(from, ents) ==
    /\ pc = from
    /\ pc' = "threw"
    /\ threw' = from
    /\ entries' = ents
    /\ UNCHANGED <<rawScript, lines, roundedCharacterIndent, pi, discard, speechAnomalies, unknownLines, fetchVars>>

Preprocess ==
    /\ pc = "preprocess"
    /\ pc' = "discard"
    /\ rawScript' = preprocess(rawScript)
    /\ UNCHANGED <<lines, entries, threw, roundedCharacterIndent, pi, discard, speechAnomalies, unknownLines, fetchVars>>

DiscardPass ==
    /\ pc = "discard"
    /\ pc' = "build"
    /\ lines' = discardPass(split(rawScript))
    /\ UNCHANGED <<rawScript, entries, threw, roundedCharacterIndent, pi, discard, speechAnomalies, unknownLines, fetchVars>>

InitEntries == Step("build", "cluster", initEntries(lines))

ClusterAccepted ==
    /\ clusteringAccepted(entries)
    /\ Step("cluster", "sceneLexicon", seedFromIndentation(entries))

ClusterRejected ==
    /\ ~clusteringAccepted(entries)
    /\ ~rejectedBranchThrows(entries)
    /\ Step("cluster", "sceneLexicon", entries)

ClusterRejectedThrows ==
    /\ ~clusteringAccepted(entries)
    /\ rejectedBranchThrows(entries)
    /\ Throw("cluster", entries)

SceneLexicon == Step("sceneLexicon", "speechCue", sceneLexiconPass(entries))

SpeechCue == Step("speechCue", "flagSpeech", speechCuePass(entries))

FlagSpeech == Step("flagSpeech", "metaLexicon", flagSpeechPass(entries))

MetaLexicon == Step("metaLexicon", "narrative", metaLexiconPass(entries))

Narrative == Step("narrative", "removal", narrativePass(entries))

Removal == Step("removal", "boundary", removalPass(entries))

Boundary ==
    /\ ~boundaryThrows(entries)
    /\ Step("boundary", "lastSpeech", boundaryPass(entries))

BoundaryThrows ==
    /\ boundaryThrows(entries)
    /\ Throw("boundary", boundaryPass(entries))

LastSpeech == Step("lastSpeech", "postprocess", lastSpeechPass(entries))

\* postprocess(), first scan: the average indentation of each annotation
PostprocessMean ==
    /\ pc = "postprocess"
    /\ pc' = "fixCharacters"
    /\ roundedCharacterIndent' = roundedMean(entries, CHARACTER)
    /\ pi' = 1
    /\ discard' = 0
    /\ UNCHANGED <<rawScript, lines, entries, threw, speechAnomalies, unknownLines, fetchVars>>

\* postprocess(), second scan: the callback at entry pi; discard is its local
\* variable, as the position of the entry it points to (0 for null)
FixCharacters ==
    /\ pc = "fixCharacters"
    /\ pi <= Len(entries)
    /\ entries' = fixPair(entries, pi, roundedCharacterIndent)
    /\ discard' = IF isCharacterPair(entries, pi)
                  THEN discardOf(entries, pi, roundedCharacterIndent)
                  ELSE 0
    /\ pi' = pi + 1
    /\ UNCHANGED <<rawScript, lines, pc, threw, roundedCharacterIndent, speechAnomalies, unknownLines, fetchVars>>

\* parse() returns
Return ==
    /\ pc = "fixCharacters"
    /\ pi > Len(entries)
    /\ pc' = "diagnose"
    /\ UNCHANGED <<rawScript, lines, entries, threw, roundedCharacterIndent, pi, discard, speechAnomalies, unknownLines, fetchVars>>

\* diagnoseScan that takes the annotation back from the entries it reports as
\* speech anomalies
diagnoseScanFlagging(ents) ==
    setAnnotation(ents,
                  {i \in following(ents, CHARACTER) :
                      ents[i].annotation \notin {SPEECH, SPEECH_CUE}},
                  UNKNOWN)

\* this.entries after diagnose(): the callback of its scan only reads e and
\* previousEntry and returns nothing, the array pass() returns is dropped, and
\* the table of character occurrences is built from copies
diagnoseScan(ents) == ents

\* diagnose(): positions are those of the entries, from 1
Diagnose ==
    /\ pc = "diagnose"
    /\ pc' = "done"
    /\ entries' = diagnoseScan(entries)
    /\ speechAnomalies' = {i \in following(entries, CHARACTER) :
                              entries[i].annotation \notin {SPEECH, SPEECH_CUE}}
    /\ unknownLines' = {i \in DOMAIN entries : entries[i].annotation = UNKNOWN}
    /\ UNCHANGED <<rawScript, lines, threw, roundedCharacterIndent, pi, discard, fetchVars>>

Next ==
    \/ Preprocess
    \/ DiscardPass
    \/ InitEntries
    \/ ClusterAccepted
    \/ ClusterRejected
    \/ ClusterRejectedThrows
    \/ SceneLexicon
    \/ SpeechCue
    \/ FlagSpeech
    \/ MetaLexicon
    \/ Narrative
    \/ Removal
    \/ Boundary
    \/ BoundaryThrows
    \/ LastSpeech
    \/ PostprocessMean
    \/ FixCharacters
    \/ Return
    \/ Diagnose

Spec == Init /\ [][Next]_vars


\* ------------------------------------------------------------------ movie-script-retriever

\* The value null of a script URL or of a raw script
null == "<null>"

BATCH_SIZE_FETCH_SCRIPTS == 5

\* Longest list of movies handed to fetchMovieScriptsInBatch
MaxMovies == 6

tokenizeMovieTitle(title) ==
    LET dashed == ReplaceAll(trim(toLowerCase(title)), " ", "-")
    IN  ReplaceAll(ReplaceAll(ReplaceAll(dashed, ":", ""), "!", ""), "?", "")

\* The title of the k-th movie of a list
Titles ==
    <<"Alien", "Big Fish", "Cars!", "Dune: Part One", " Elf", "Fargo", "Gattaca", "Heat?">>

\* What is known of a movie and of its page: no script URL, a script that is
\* not a HTML page, a HTML page that can be fetched, one that cannot
MovieKinds ==
    {[scriptURL |-> null, online |-> TRUE],
     [scriptURL |-> ".pdf", online |-> TRUE],
     [scriptURL |-> ".html", online |-> TRUE],
     [scriptURL |-> ".html", online |-> FALSE]}

\* new MovieMetadata(metadata), with the state of the remote page
MovieMetadata(title, kind) ==
    [title |-> title,
     tokenizedTitle |-> tokenizeMovieTitle(title),
     scriptURL |-> IF kind.scriptURL = null THEN null
                   ELSE "/scripts/" \o tokenizeMovieTitle(title) \o kind.scriptURL,
     online |-> kind.online]

MovieLists ==
    UNION {{[k \in 1..n |-> MovieMetadata(Titles[k], f[k])] : f \in [1..n -> MovieKinds]} :
              n \in 0..MaxMovies}

hasScriptURL(m) == m.scriptURL # null

hasFetchableScript(m) == hasScriptURL(m) /\ Contains(m.scriptURL, ".html")

\* fetchMovieScript: null without a HTML script URL and when the request
\* fails, else the markup of the script container
fetchMovieScript(m) ==
    IF ~hasScriptURL(m) THEN null
    ELSE IF ~Contains(m.scriptURL, ".html") THEN null
    ELSE IF m.online THEN "<pre>" \o m.title \o "</pre>"
    ELSE null

fetchableMovies(ms) == SelectSeq(ms, hasFetchableScript)

\* fetchableMovies.slice(i, Math.min(i + BATCH_SIZE_FETCH_SCRIPTS, length))
sliceBatch(fm, start) ==
    SubSeq(fm, start + 1,
           IF start + BATCH_SIZE_FETCH_SCRIPTS < Len(fm)
           THEN start + BATCH_SIZE_FETCH_SCRIPTS ELSE Len(fm))

\* The object filled by loadedScripts.forEach: the key of the k-th script is
\* the tokenized title of the k-th element of movies; a later script replaces
\* an earlier one under the same key
batchScriptsOf(ms, b) ==
    LET loadedScripts == [k \in DOMAIN b |-> fetchMovieScript(b[k])]
        keys == {ms[k].tokenizedTitle : k \in DOMAIN b}
    IN  [t \in keys |-> loadedScripts[SetMax({k \in DOMAIN b : ms[k].tokenizedTitle = t})]]

\* this.rawScripts after the callback of loadRawScriptsFromSource
storeBatch(cache, loadedBatch) ==
    LET kept == {t \in DOMAIN loadedBatch : loadedBatch[t] # null}
    IN  [t \in DOMAIN cache \cup kept |-> IF t \in kept THEN loadedBatch[t] ELSE cache[t]]

FetchInit ==
    /\ movies \in MovieLists
    /\ batchStart = 0
    /\ batch = <<>>
    /\ batchScripts = <<>>
    /\ rawScripts = <<>>
    /\ pc = "fetch"
    /\ rawScript = ""
    /\ lines = <<>>
    /\ entries = <<>>
    /\ threw = ""
    /\ roundedCharacterIndent = NaN
    /\ pi = 0
    /\ discard = 0
    /\ speechAnomalies = {}
    /\ unknownLines = {}

\* One turn of the loop, up to the call of onBatchLoaded
FetchBatch ==
    /\ pc = "fetch"
    /\ batchStart < Len(fetchableMovies(movies))
    /\ batch' = sliceBatch(fetchableMovies(movies), batchStart)
    /\ batchScripts' = batchScriptsOf(movies, batch')
    /\ pc' = "onBatchLoaded"
    /\ UNCHANGED <<movies, batchStart, rawScripts, parserVars>>

\* The callback of loadRawScriptsFromSource, then the step of the loop
OnBatchLoaded ==
    /\ pc = "onBatchLoaded"
    /\ rawScripts' = storeBatch(rawScripts, batchScripts)
    /\ batchStart' = batchStart + BATCH_SIZE_FETCH_SCRIPTS
    /\ pc' = "fetch"
    /\ UNCHANGED <<movies, batch, batchScripts, parserVars>>

\* The loop ends
FetchDone ==
    /\ pc = "fetch"
    /\ batchStart >= Len(fetchableMovies(movies))
    /\ pc' = "fetched"
    /\ UNCHANGED <<fetchVars, parserVars>>

FetchNext == FetchBatch \/ OnBatchLoaded \/ FetchDone

FetchSpec == FetchInit /\ [][FetchNext]_vars



\* ------------------------------------------------------------------------
\* Properties of parse()
\* ------------------------------------------------------------------------

Returned == pc \in {"diagnose", "done"}

Finished == pc \in {"done", "threw"}

annotationsOf(ents) == [i \in DOMAIN ents |-> ents[i].annotation]

CountIn(s, class) == Cardinality({i \in 1..Len(s) : Ch(s, i) \in class})

\* C1: for every input that yields at least one entry, parse() runs to its
\* end without throwing, also when the clustering finds fewer than two
\* indentation groups and when every entry is still UNKNOWN at the
\* boundary pass.
C1_ParseNeverThrows == pc = "threw" => initEntries(lines) = <<>>

\* C2: the upper-case ratio of an entry is (#upper-case letters) /
\* (#upper-case + #lower-case letters), it is 1 when the entry has no cased
\* letter, and so the ratio is 1 exactly when the entry has no lower-case
\* letter.
C2_UpperCaseRatio ==
    \A i \in DOMAIN entries :
        LET s == entries[i].content
            q == computeUpperCaseFrequency(s)
            u == CountIn(s, Upper)
            l == CountIn(s, Lower)
        IN  /\ u + l = 0 => RatioIsOne(q)
            /\ u + l > 0 => q[1] * (u + l) = u * q[2]
            /\ RatioIsOne(q) <=> l = 0

\* The two entries the last fixCharacters callback compared, when it
\* withdrew one of them: pi - 1 is the entry of the callback, pi - 2 its
\* previous entry.
PairFixed == pc = "fixCharacters" /\ discard # 0 /\ pi >= 2

pairIndentation(k) == indentationOf(entries[k])

\* C3: when two consecutive CHARACTER entries have the same indentation, the
\* one with the shorter content stays CHARACTER and the longer one loses the
\* annotation.
C3_ShorterStaysCharacter ==
    (/\ PairFixed
     /\ pairIndentation(pi - 2) = pairIndentation(pi - 1)
     /\ Len(entries[pi - 2].content) # Len(entries[pi - 1].content))
    => LET shorter == IF Len(entries[pi - 2].content) < Len(entries[pi - 1].content)
                      THEN pi - 2 ELSE pi - 1
           longer  == (pi - 2) + (pi - 1) - shorter
       IN  /\ entries[shorter].annotation = CHARACTER
           /\ entries[longer].annotation # CHARACTER
           /\ discard = longer

\* C4: when two consecutive CHARACTER entries have different indentations,
\* the one whose indentation equals the rounded mean CHARACTER indentation
\* stays CHARACTER; when neither does, the one with the lower indentation
\* stays CHARACTER.
C4_PreferredIndentationStays ==
    (PairFixed /\ pairIndentation(pi - 2) # pairIndentation(pi - 1))
    => LET a == pi - 2
           b == pi - 1
           kept == IF pairIndentation(b) = roundedCharacterIndent THEN b
                   ELSE IF pairIndentation(a) = roundedCharacterIndent THEN a
                   ELSE IF pairIndentation(a) < pairIndentation(b) THEN a ELSE b
       IN  /\ entries[kept].annotation = CHARACTER
           /\ discard = a + b - kept

\* C5: the script "  JOHN\n    Hello there." is parsed into two entries, the
\* first annotated CHARACTER and the second SPEECH.
C5_JohnHelloThere ==
    (rawScript = "  JOHN\n    Hello there." /\ Finished)
    => (pc = "done" /\ annotationsOf(entries) = <<CHARACTER, SPEECH>>)


\* The scene lexicon test of the SCENE lexicon pass on the content of e.
inSceneLexicon(e) == matchesSceneLexicon(ReplaceFirst(e.content, "<b>", ""))

\* C6: in the sequence parse() returns, every entry that matches the scene
\* lexicon is annotated SCENE, whatever annotation the clustering gave it
\* and whether the clustering was accepted or rejected.
C6_SceneLexiconWins ==
    Returned => \A i \in DOMAIN entries :
                    (matchesSceneLexicon(entries[i].content) \/ inSceneLexicon(entries[i]))
                    => entries[i].annotation = SCENE

\* A returned sequence with a scene lexicon entry that the accepted
\* clustering had made a CHARACTER.
C6_Witness ==
    /\ pc = "done"
    /\ LET built  == initEntries(lines)
           seeded == seedFromIndentation(built)
       IN  /\ clusteringAccepted(built)
           /\ \E i \in DOMAIN entries : \E j \in DOMAIN built :
                 /\ built[j].origin = entries[i].origin
                 /\ seeded[j].annotation = CHARACTER
                 /\ inSceneLexicon(entries[i])
                 /\ entries[i].annotation = SCENE

\* An UNKNOWN entry made only of digits, periods, punctuation and bold tags.
Punctuation == {".", ",", "-", ":", ";", "(", ")", "'", "!", "?"}

onlyDigitsAndPunctuation(e) ==
    LET t == trim(removeBoldTags(e.content))
    IN  /\ e.annotation = UNKNOWN
        /\ \E k \in 1..Len(t) : Ch(t, k) \in Digit
        /\ AllIn(t, Digit \cup Punctuation \cup WhiteSpace)

\* C7 as stated: the sequence parse() returns has no UNKNOWN entry whose
\* content is only digits, punctuation and bold tags.
C7_NoNumericResidue ==
    Returned => \A i \in DOMAIN entries : ~onlyDigitsAndPunctuation(entries[i])

\* An UNKNOWN entry whose content is digits with at most one final period,
\* inside optional bold tags and white space.
numericalResidue(e) == e.annotation = UNKNOWN /\ matchesNumericalOnly(e.content)

AfterRemoval ==
    pc \in {"boundary", "lastSpeech", "postprocess", "fixCharacters", "diagnose"}

\* C7 amended: the removal pass leaves no UNKNOWN entry whose content is
\* digits with at most one final period (bold tags and white space aside),
\* and from then on such an entry appears only where the postprocessing
\* took the CHARACTER annotation back from an entry.
C7_NumericalOnlyRemoved ==
    [][ /\ pc = "removal" =>
              \A i \in DOMAIN entries' : ~numericalResidue(entries'[i])
        /\ AfterRemoval =>
              /\ Len(entries') = Len(entries)
              /\ \A i \in DOMAIN entries' :
                    numericalResidue(entries'[i]) =>
                        \/ numericalResidue(entries[i])
                        \/ /\ pc = "fixCharacters"
                           /\ entries[i].annotation = CHARACTER ]_vars

\* A returned sequence from which the removal pass took a bold numbered
\* entry.
C7_Witness ==
    /\ pc = "done"
    /\ \E j \in DOMAIN initEntries(lines) :
          /\ matchesNumericalOnly(initEntries(lines)[j].content)
          /\ isBold(initEntries(lines)[j].content)
          /\ \A i \in DOMAIN entries : entries[i].origin # initEntries(lines)[j].origin


\* The merge rule read off the lines alone: line k continues the entry of
\* line k - 1 when both are non-blank and have the same indentation.
continuesEntry(ls, k) ==
    /\ k > 1
    /\ ~isBlank(ls[k])
    /\ ~isBlank(ls[k - 1])
    /\ computeIndentation(ls[k]) = computeIndentation(ls[k - 1])

startsEntry(ls, k) == ~isBlank(ls[k]) /\ ~continuesEntry(ls, k)

entryStarts(ls) == {k \in DOMAIN ls : startsEntry(ls, k)}

\* The i-th smallest element of S
nth(S, i) == CHOOSE k \in S : Cardinality({m \in S : m < k}) = i - 1

lastOfRun(ls, k) ==
    SetMax({j \in k..Len(ls) : \A m \in (k + 1)..j : continuesEntry(ls, m)})

RECURSIVE runContent(_, _, _)
runContent(ls, k, j) ==
    IF j = k THEN ls[k]
    ELSE trimEnd(runContent(ls, k, j - 1)) \o " " \o trim(ls[j])

\* C8: when the entries are built, a non-blank line that directly follows a
\* non-blank line of the same indentation is merged into that line's entry
\* (entry content without trailing white space, one space, the trimmed
\* line); a line after a blank line or with another indentation starts a
\* new entry, UNKNOWN and unlocked, holding the raw line.
C8_MergeRule ==
    pc = "cluster" =>
        /\ Len(entries) = Cardinality(entryStarts(lines))
        /\ \A i \in DOMAIN entries :
              LET k == nth(entryStarts(lines), i)
              IN  /\ entries[i].content = runContent(lines, k, lastOfRun(lines, k))
                  /\ entries[i].annotation = UNKNOWN
                  /\ ~entries[i].locked

\* Entries were built from lines with a merged line and with two lines of
\* the same indentation that a blank line keeps apart.
C8_Witness ==
    /\ pc = "cluster"
    /\ \E k \in DOMAIN lines : continuesEntry(lines, k)
    /\ \E k \in DOMAIN lines :
          /\ k > 2
          /\ isBlank(lines[k - 1])
          /\ startsEntry(lines, k)
          /\ ~isBlank(lines[k - 2])
          /\ computeIndentation(lines[k]) = computeIndentation(lines[k - 2])

\* C9: the entries keep the relative order of the lines they were created
\* from, through every pass: each entry begins with the line that created
\* it, and these lines appear in increasing position.
C9_OrderPreserved ==
    \A i \in DOMAIN entries :
        /\ entries[i].origin \in DOMAIN lines
        /\ StartsWith(entries[i].content, trimEnd(lines[entries[i].origin]))
        /\ i > 1 => entries[i - 1].origin < entries[i].origin

\* A returned sequence of at least two entries, shorter than the sequence
\* that was built.
C9_Witness ==
    /\ pc = "done"
    /\ Len(entries) >= 2
    /\ Len(entries) < Len(initEntries(lines))

\* C10: every entry carries exactly one of the seven annotations, at every
\* point of the pipeline.
C10_OneAnnotation ==
    /\ Cardinality(Annotation) = 7
    /\ \A i \in DOMAIN entries : entries[i].annotation \in Annotation

\* A returned sequence that uses at least four different annotations.
C10_Witness ==
    /\ pc = "done"
    /\ Cardinality({entries[i].annotation : i \in DOMAIN entries}) >= 4


\* C11: the locked flag is monotonic: once a pass has set the locked flag of
\* an entry, no later pass clears it.
C11_LockedMonotonic ==
    [][ \A i \in DOMAIN entries : \A j \in DOMAIN entries' :
            (entries[i].origin = entries'[j].origin /\ entries[i].locked)
            => entries'[j].locked ]_vars

\* A returned sequence with an entry the SCENE lexicon pass locked and an
\* entry the SPEECH CUE pass locked.
C11_Witness ==
    /\ pc = "done"
    /\ \E i \in DOMAIN entries : entries[i].locked /\ entries[i].annotation = SCENE
    /\ \E i \in DOMAIN entries : entries[i].locked /\ entries[i].annotation = SPEECH_CUE

\* C12 as stated: once an entry has an annotation other than UNKNOWN, no
\* later pass, the postprocessing included, sets it back to UNKNOWN.
C12_NeverBackToUnknown ==
    [][ \A i \in DOMAIN entries : \A j \in DOMAIN entries' :
            (entries[i].origin = entries'[j].origin /\ entries[i].annotation # UNKNOWN)
            => entries'[j].annotation # UNKNOWN ]_vars

\* C12 amended: an annotation other than UNKNOWN goes back to UNKNOWN only in
\* the postprocessing, and only for the earlier entry of two adjacent
\* CHARACTER entries; no other pass sets an annotation back to UNKNOWN.
C12_BackToUnknownOnlyInPostprocess ==
    [][ \A i \in DOMAIN entries : \A j \in DOMAIN entries' :
            (/\ entries[i].origin = entries'[j].origin
             /\ entries[i].annotation # UNKNOWN
             /\ entries'[j].annotation = UNKNOWN)
            => /\ pc = "fixCharacters"
               /\ i = j
               /\ i = pi - 1
               /\ entries[i].annotation = CHARACTER
               /\ entries[pi].annotation = CHARACTER
               /\ entries'[pi].annotation = CHARACTER ]_vars

\* The postprocessing has just taken the CHARACTER annotation back from the
\* earlier entry of a pair.
C12_Witness ==
    /\ pc = "fixCharacters"
    /\ discard # 0
    /\ discard = pi - 2
    /\ entries[discard].annotation = UNKNOWN
    /\ entries[pi - 1].annotation = CHARACTER


C14_RejectedClusteringContinues ==
    [][ (pc = "cluster" /\ entries # <<>> /\ ~clusteringAccepted(entries))
        => /\ pc' = "sceneLexicon"
           /\ entries' = entries
           /\ \A i \in DOMAIN entries' : entries'[i].annotation = UNKNOWN ]_vars


\* C15: an input from which no entry can be built (empty text, blank lines,
\* block markers) is rejected before any annotation pass: the CHARACTER and
\* SCENES pass and the passes after it never start on an empty sequence.
C15_EmptyInputRejected ==
    pc \in {"cluster", "sceneLexicon", "speechCue", "flagSpeech", "metaLexicon",
            "narrative", "removal"}
    => entries # <<>>


\* C16: diagnose() changes nothing in the result: after it the sequence has
\* the same entries in the same order, each with the same content,
\* annotation and locked flag.
C16_DiagnoseReadOnly ==
    [][ pc = "diagnose" =>
            /\ Len(entries') = Len(entries)
            /\ \A i \in DOMAIN entries :
                  /\ entries'[i].content = entries[i].content
                  /\ entries'[i].annotation = entries[i].annotation
                  /\ entries'[i].locked = entries[i].locked ]_vars

\* diagnose() has run and has reported a speech anomaly and an UNKNOWN entry.
C16_Witness ==
    /\ pc = "done"
    /\ speechAnomalies # {}
    /\ unknownLines # {}


\* C17: the META lexicon pass has finished before the Flag SPEECH sweeps
\* start, so an entry that the META lexicon pass turns from CHARACTER into
\* META is not taken for a CHARACTER by the sweep, and the UNKNOWN entry
\* after it is not made SPEECH because of it.
C17_MetaLexiconBeforeSpeech ==
    [][ pc = "flagSpeech" =>
            \A i \in DOMAIN entries :
                (/\ i > 1
                 /\ entries[i - 1].annotation = CHARACTER
                 /\ ~entries[i - 1].locked
                 /\ matchesMetaLexicon(entries[i - 1].content)
                 /\ entries[i].annotation = UNKNOWN)
                => entries'[i].annotation # SPEECH ]_vars


\* C18: the object fetchMovieScriptsInBatch passes to onBatchLoaded maps the
\* tokenized title of each movie fetched in that batch to the raw script
\* fetched for that movie, also when some movies are not fetchable and when
\* there is more than one batch.
C18_BatchMapsTitleToScript ==
    pc = "onBatchLoaded" =>
        /\ DOMAIN batchScripts = {batch[k].tokenizedTitle : k \in DOMAIN batch}
        /\ \A k \in DOMAIN batch :
              batchScripts[batch[k].tokenizedTitle] = fetchMovieScript(batch[k])


\* The upper-case or bold entries of the CHARACTER and SCENES pass, and their
\* groups by indentation, read off the entries
candidates(ents) == {i \in DOMAIN ents : isCandidate(computeMetrics(ents[i].content))}

groupOf(ents, d) == {i \in candidates(ents) : indentationOf(ents[i]) = d}

groupIndentations(ents) == {indentationOf(ents[i]) : i \in candidates(ents)}

\* Group a comes before group b: it is larger, or as large and met first
precedes(a, b) ==
    \/ Cardinality(a) > Cardinality(b)
    \/ Cardinality(a) = Cardinality(b) /\ SetMin(a) < SetMin(b)

\* The k-th group in that order
rankedGroup(ents, k) ==
    LET G == {groupOf(ents, d) : d \in groupIndentations(ents)}
    IN  CHOOSE a \in G : Cardinality({b \in G : precedes(b, a)}) = k - 1

\* The four conditions: at least two groups, the largest group more than 10%
\* of the entries, the second more than 1.5% of the entries, both together
\* more than 50% of the upper-case or bold entries
fourConditions(ents) ==
    /\ Cardinality(groupIndentations(ents)) >= 2
    /\ 100 * Cardinality(rankedGroup(ents, 1)) > 10 * Len(ents)
    /\ 1000 * Cardinality(rankedGroup(ents, 2)) > 15 * Len(ents)
    /\ 100 * (Cardinality(rankedGroup(ents, 1)) + Cardinality(rankedGroup(ents, 2)))
          > 50 * Cardinality(candidates(ents))

C20_SeedsLargestAndSecond ==
    [][ (pc = "cluster" /\ fourConditions(entries)) =>
            /\ \A j \in rankedGroup(entries, 1) :
                  IF j = 1 \/ matchesCharacterExclusion(entries[j].content)
                  THEN entries'[j].annotation = UNKNOWN
                  ELSE entries'[j].annotation = CHARACTER
            /\ \A j \in rankedGroup(entries, 2) : entries'[j].annotation = SCENE ]_vars

\* The pass has seeded CHARACTER entries and has left a parenthesized cue of
\* their group UNKNOWN.
C20_Witness ==
    /\ pc = "sceneLexicon"
    /\ \E j \in DOMAIN entries : \E k \in DOMAIN entries :
          /\ entries[j].annotation = CHARACTER
          /\ entries[k].annotation = UNKNOWN
          /\ isBold(entries[k].content)
          /\ allInParenthesis(entries[k].content)
          /\ indentationOf(entries[k]) = indentationOf(entries[j])


\* The groups other than the two largest
otherGroups(ents) ==
    {groupOf(ents, d) : d \in groupIndentations(ents)}
        \ {rankedGroup(ents, 1), rankedGroup(ents, 2)}

\* Entry j is not the first entry of the document and matches no exclusion pattern
mayBeCharacter(ents, j) == j # 1 /\ ~matchesCharacterExclusion(ents[j].content)

\* The names known once the groups of P are promoted: the cleaned names of the
\* seeded entries and of the promoted entries
knownNames(ents, P) ==
    {cleanupCharacterEntry(ents[j]) :
        j \in {i \in rankedGroup(ents, 1) \cup UNION P : mayBeCharacter(ents, i)}}

\* The least set of groups closed under promotion, built one group at a time
RECURSIVE promotedGroups(_, _)
promotedGroups(ents, P) ==
    LET names == knownNames(ents, P)
        next == {g \in otherGroups(ents) \ P :
                    \E j \in g : cleanupCharacterEntry(ents[j]) \in names}
    IN  IF next = {} THEN P ELSE promotedGroups(ents, P \cup {CHOOSE g \in next : TRUE})

\* C21: a group other than the two largest is promoted if and only if it holds
\* an entry whose cleaned text is a known name, the known names being those of
\* the seeded entries and of every promoted entry; promotion makes CHARACTER
\* every entry of the group but the first entry of the document and the
\* excluded entries; when the expansion stops no unpromoted group holds an
\* entry whose cleaned text is the name of a CHARACTER entry.
C21_ExpansionIsLeastFixedPoint ==
    [][ (pc = "cluster" /\ fourConditions(entries)) =>
            LET P == promotedGroups(entries, {})
                known == {cleanupCharacterEntry(entries'[k]) :
                             k \in {i \in DOMAIN entries' : entries'[i].annotation = CHARACTER}}
            IN  /\ \A g \in otherGroups(entries) : \A j \in g :
                       entries'[j].annotation =
                           IF g \in P /\ mayBeCharacter(entries, j) THEN CHARACTER ELSE UNKNOWN
                /\ \A g \in otherGroups(entries) \ P : \A j \in g :
                       cleanupCharacterEntry(entries[j]) \notin known ]_vars

\* The expansion has promoted a group for a name that only a promoted group
\* brought, has left the first entry and a parenthesized cue of that group
\* UNKNOWN, and has left a group with an unknown name alone.
C21_Witness ==
    /\ pc = "sceneLexicon"
    /\ Len(entries) > 1
    /\ entries[1].content = " <b>MARY</b>" /\ entries[1].annotation = UNKNOWN
    /\ \E j \in DOMAIN entries :
          entries[j].content = " <b>MARY</b>" /\ entries[j].annotation = CHARACTER
    /\ \E j \in DOMAIN entries :
          entries[j].content = " <b>(V.O.)</b>" /\ entries[j].annotation = UNKNOWN
    /\ \E j \in DOMAIN entries :
          entries[j].content = "      <b>PAUL</b>" /\ entries[j].annotation = UNKNOWN

\* C22: the expansion terminates: every run of the body after which the loop
\* continues takes at least one group away from the remaining groups, so the
\* body runs at most (number of groups beyond the two largest) + 1 times.
C22_ExpansionBounded ==
    (pc = "cluster" /\ fourConditions(entries)) =>
        LET left == expansion(entries).left
            G == otherGroups(entries)
        IN  /\ Len(left) <= Cardinality(G) + 1
            /\ \A k \in 1..(Len(left) - 1) :
                  LET before == IF k = 1 THEN G ELSE left[k - 1]
                  IN  left[k] \subseteq before /\ left[k] # before

\* The body of the loop is about to run three times.
C22_Witness ==
    /\ pc = "cluster"
    /\ fourConditions(entries)
    /\ Len(expansion(entries).left) = 3


\* Histogram A as a record of the entries the first sweep turns from UNKNOWN
\* into SPEECH, and histogram B: the indentations that are their keys
turnedIndentations(ents) ==
    {indentationOf(ents[j]) :
        j \in {i \in following(ents, CHARACTER) : ents[i].annotation = UNKNOWN}}

afterCueIndentations(ents) ==
    {indentationOf(ents[j]) : j \in following(ents, SPEECH_CUE)}

\* C23: an UNKNOWN entry that directly follows a SPEECH CUE entry becomes
\* SPEECH if and only if its indentation is the indentation of an entry the
\* first sweep turned from UNKNOWN into SPEECH and of an entry that follows a
\* SPEECH CUE; when the two histograms share no indentation the overlap step
\* changes no entry.
C23_OverlapOfTurnedAndAfterCue ==
    [][ pc = "flagSpeech" =>
            LET A == turnedIndentations(entries)
                B == afterCueIndentations(entries)
            IN  /\ \A j \in following(entries, SPEECH_CUE) :
                      entries[j].annotation = UNKNOWN =>
                          (entries'[j].annotation = SPEECH
                              <=> indentationOf(entries[j]) \in A \cap B)
                /\ A \cap B = {} =>
                      \A j \in DOMAIN entries :
                          j \notin following(entries, CHARACTER) => entries'[j] = entries[j] ]_vars


\* The annotations the last sweep leaves alone
keptByLastSweep == {SPEECH, CHARACTER, SPEECH_CUE}

\* C24: the last SPEECH pass runs after the NARRATIVE, removal and boundary
\* passes; after it every unlocked entry that directly follows a CHARACTER
\* entry is SPEECH, CHARACTER or SPEECH CUE, and the pass changes no locked
\* entry and no entry that does not directly follow a CHARACTER entry.
C24_LastSweep ==
    [][ /\ pc' = "lastSpeech" => pc = "boundary"
        /\ pc = "lastSpeech" =>
              /\ Len(entries') = Len(entries)
              /\ \A j \in DOMAIN entries :
                    /\ (j \in following(entries', CHARACTER) /\ ~entries'[j].locked)
                          => entries'[j].annotation \in keptByLastSweep
                    /\ (entries[j].locked \/ j \notin following(entries, CHARACTER))
                          => entries'[j] = entries[j]
                    /\ entries'[j].content = entries[j].content
                    /\ entries'[j].locked = entries[j].locked ]_vars

\* The last sweep is about to turn an unlocked entry under a CHARACTER entry
\* into SPEECH, in a document that has a locked entry.
C24_Witness ==
    /\ pc = "lastSpeech"
    /\ \E j \in following(entries, CHARACTER) :
          ~entries[j].locked /\ entries[j].annotation \notin keptByLastSweep
    /\ \E j \in DOMAIN entries : entries[j].locked


\* C25: the META lexicon pass changes an entry to META if and only if the entry
\* is unlocked, is UNKNOWN, CHARACTER or SCENE and matches the META lexicon; it
\* changes no locked entry, no SPEECH, SPEECH CUE or NARRATIVE entry, and no
\* locked flag.
C25_MetaLexiconPass ==
    [][ pc = "metaLexicon" =>
            /\ Len(entries') = Len(entries)
            /\ \A j \in DOMAIN entries :
                  IF /\ ~entries[j].locked
                     /\ entries[j].annotation \in {UNKNOWN, CHARACTER, SCENE}
                     /\ matchesMetaLexicon(entries[j].content)
                  THEN entries'[j] = [entries[j] EXCEPT !.annotation = META]
                  ELSE entries'[j] = entries[j] ]_vars

\* The pass has made a cue META and has left alone a locked heading with
\* " LATER" in it and a line of dialogue with "CUT TO" in it.
C25_Witness ==
    /\ pc = "narrative"
    /\ \E j \in DOMAIN entries :
          /\ entries[j].locked /\ entries[j].annotation = SCENE
          /\ Contains(entries[j].content, " LATER")
    /\ \E j \in DOMAIN entries :
          entries[j].annotation = SPEECH /\ matchesMetaLexicon(entries[j].content)
    /\ \E j \in DOMAIN entries :
          entries[j].annotation = META /\ ~entries[j].locked


\* The UNKNOWN entries that name a character, counted by indentation
namingAt(ents, d) ==
    Cardinality({i \in DOMAIN ents :
        /\ ents[i].annotation = UNKNOWN
        /\ indentationOf(ents[i]) = d
        /\ \E k \in DOMAIN ents :
              /\ ents[k].annotation = CHARACTER
              /\ Contains(toLowerCase(ents[i].content), cleanupCharacterEntry(ents[k]))})

\* C26: the NARRATIVE pass takes the indentation shared by the largest number
\* of UNKNOWN entries whose lower-cased content holds the cleaned name of a
\* CHARACTER entry, turns every UNKNOWN entry at that indentation into
\* NARRATIVE, named or not, and changes no other entry; when no UNKNOWN entry
\* names a character it changes nothing.
C26_NarrativeInference ==
    [][ pc = "narrative" =>
            LET D == {indentationOf(entries[i]) : i \in DOMAIN entries}
                N == {d \in D : namingAt(entries, d) > 0}
            IN  IF N = {} THEN entries' = entries
                ELSE \E d \in N :
                        /\ \A e \in N : namingAt(entries, d) >= namingAt(entries, e)
                        /\ entries' =
                              [j \in DOMAIN entries |->
                                  IF /\ entries[j].annotation = UNKNOWN
                                     /\ indentationOf(entries[j]) = d
                                  THEN [entries[j] EXCEPT !.annotation = NARRATIVE]
                                  ELSE entries[j]] ]_vars

\* The pass has made NARRATIVE a paragraph that names no character, and has
\* left UNKNOWN a paragraph that names one at an indentation with fewer
\* such paragraphs.
C26_Witness ==
    /\ pc = "removal"
    /\ \E j \in DOMAIN entries :
          entries[j].annotation = NARRATIVE /\ entries[j].content = "The door closes."
    /\ \E j \in DOMAIN entries :
          entries[j].annotation = NARRATIVE /\ entries[j].content = "John walks in."
    /\ \E j \in DOMAIN entries :
          entries[j].annotation = UNKNOWN /\ entries[j].content = "      Far from John."


\* The position of the first entry that is not UNKNOWN, or one past the end
firstKnown(ents) ==
    SetMin({i \in DOMAIN ents : ents[i].annotation # UNKNOWN} \cup {Len(ents) + 1})

\* C27: the boundary pass turns into META exactly the maximal prefix of UNKNOWN
\* entries, stops at the first entry that is not UNKNOWN, and changes no entry
\* at or after that entry; parse() goes on with the last SPEECH pass.
C27_BoundaryPrefix ==
    [][ pc = "boundary" =>
            /\ pc' = "lastSpeech"
            /\ entries' =
                  [j \in DOMAIN entries |->
                      IF j < firstKnown(entries)
                      THEN [entries[j] EXCEPT !.annotation = META]
                      ELSE entries[j]] ]_vars


\* C28: a locked entry is immune to every later pass: no step changes the
\* annotation of a locked entry or deletes it, every locked entry is SCENE or
\* SPEECH CUE, and every SPEECH CUE entry is locked.
C28_LockedImmune ==
    [][ /\ \A j \in DOMAIN entries :
              entries[j].locked =>
                  \E k \in DOMAIN entries' :
                      /\ entries'[k].origin = entries[j].origin
                      /\ entries'[k].annotation = entries[j].annotation
                      /\ entries'[k].content = entries[j].content
                      /\ entries'[k].locked
        /\ \A k \in DOMAIN entries' :
              /\ entries'[k].locked => entries'[k].annotation \in {SCENE, SPEECH_CUE}
              /\ entries'[k].annotation = SPEECH_CUE => entries'[k].locked ]_vars

\* parse() has returned a locked SPEECH CUE that follows a CHARACTER entry and a
\* locked SCENE.
C28_Witness ==
    /\ pc = "done"
    /\ \E j \in following(entries, CHARACTER) :
          entries[j].locked /\ entries[j].annotation = SPEECH_CUE
    /\ \E j \in DOMAIN entries : entries[j].locked /\ entries[j].annotation = SCENE


\* C29: in the returned sequence every entry that directly follows a CHARACTER
\* entry is SPEECH, SPEECH CUE or locked; no two adjacent entries are both
\* CHARACTER, and the speech anomalies diagnose() reports are locked SCENE
\* entries.
C29_FollowersOfCharacter ==
    Returned =>
        /\ \A j \in following(entries, CHARACTER) :
              \/ entries[j].annotation \in {SPEECH, SPEECH_CUE}
              \/ entries[j].locked
        /\ \A j \in following(entries, CHARACTER) : entries[j].annotation # CHARACTER
        /\ pc = "done" =>
              \A j \in speechAnomalies :
                  entries[j].locked /\ entries[j].annotation = SCENE


\* parse() has returned after postprocess gave up one of two adjacent CHARACTER
\* entries, and diagnose() has reported a speech anomaly.
C29_Witness ==
    /\ pc = "done"
    /\ speechAnomalies # {}
    /\ \E j \in 2..(Len(entries) - 1) :
          /\ entries[j].annotation = UNKNOWN /\ entries[j + 1].annotation = CHARACTER
          /\ isCandidate(computeMetrics(entries[j].content))
          /\ indentationOf(entries[j]) = indentationOf(entries[j + 1])


\* C30: the returned sequence never starts with an UNKNOWN entry.
C30_FirstEntryKnown ==
    (Returned /\ entries # <<>>) => entries[1].annotation # UNKNOWN


\* C30, as the code has it: after the boundary pass and after the last SPEECH
\* pass the first entry is not UNKNOWN, and afterwards the first entry becomes
\* UNKNOWN only when postprocess gives up the first entry of the sequence as
\* the earlier of two adjacent CHARACTER entries.
C30_FirstEntryUnknownOnlyByPostprocess ==
    [][ /\ pc' \in {"lastSpeech", "postprocess"} =>
              entries' # <<>> /\ entries'[1].annotation # UNKNOWN
        /\ ( /\ pc \in {"postprocess", "fixCharacters", "diagnose"}
             /\ entries'[1].annotation = UNKNOWN
             /\ entries[1].annotation # UNKNOWN )
              => /\ pc = "fixCharacters"
                 /\ pi = 2
                 /\ isCharacterPair(entries, 2)
                 /\ entries'[2].annotation = CHARACTER ]_vars

\* parse() has returned a sequence whose first entry is UNKNOWN: a cue that
\* was not the first line of the document.
C30_Witness ==
    /\ Returned
    /\ Len(entries) >= 2
    /\ entries[1].annotation = UNKNOWN
    /\ entries[1].origin > 1
    /\ entries[2].annotation = CHARACTER

====
